---- MODULE Spec2Model ----
(***************************************************************************)
(* Model of x402/deferred.py: the "deferred" payment scheme.  A buyer      *)
(* creates a voucher, signs it, and later aggregates further charges into  *)
(* the signed voucher.  Strings whose content matters are modelled by      *)
(* what the code does to them: addresses carry their letter case, decimal  *)
(* amounts are sequences of characters parsed by int() and printed by      *)
(* str(), signatures are bound to the key and the typed message signed.    *)
(***************************************************************************)
EXTENDS Integers, Sequences, FiniteSets, TLC

\* ------------------------------------------------------------------ bounds
MaxLineage == 2   \* vouchers kept in one lineage (original + successors)
MaxSeconds == 1   \* single seconds the wall clock advances in a behaviour

\* --------------------------------------------------------------- constants
EXPIRY_TIME == 60 * 60 * 24 * 30
DEFERRED_SCHEME == "deferred"
StartTime == 1000

\* --------------------------------------------------------------- addresses
\* An address string is the 20-byte value `a` written in some letter case.
Forms == {"checksum", "lower", "upper"}

Addr(a, f) == [a |-> a, form |-> f]

\* str.lower()
Lower(s) == [s EXCEPT !.form = "lower"]

\* an address passed on in the letter case it was given in
to_checksum_address_as_given(s) == s

\* eth_utils.to_checksum_address
to_checksum_address(s) == [s EXCEPT !.form = "checksum"]

\* ----------------------------------------------------------------- amounts
\* A decimal string is a sequence of characters.
DigitChars == <<"0", "1", "2", "3", "4", "5", "6", "7", "8", "9">>

DigitVal(c) ==
  CASE c = "0" -> 0 [] c = "1" -> 1 [] c = "2" -> 2 [] c = "3" -> 3
    [] c = "4" -> 4 [] c = "5" -> 5 [] c = "6" -> 6 [] c = "7" -> 7
    [] c = "8" -> 8 [] c = "9" -> 9

RECURSIVE DigitsVal(_)
DigitsVal(s) ==
  IF s = <<>> THEN 0
  ELSE DigitsVal(SubSeq(s, 1, Len(s) - 1)) * 10 + DigitVal(s[Len(s)])

\* int(str): optional sign, leading zeros accepted
IntOf(s) ==
  IF s[1] = "-" THEN 0 - DigitsVal(Tail(s)) ELSE DigitsVal(s)

RECURSIVE NatStr(_)
NatStr(n) ==
  IF n < 10 THEN <<DigitChars[n + 1]>>
  ELSE NatStr(n \div 10) \o <<DigitChars[(n % 10) + 1]>>

\* str(int): canonical decimal form
StrOf(n) == IF n < 0 THEN <<"-">> \o NatStr(0 - n) ELSE NatStr(n)

\* ---------------------------------------------------------------- chain ids
Networks == {"base-sepolia", "base"}

get_chain_id(network) == IF network = "base-sepolia" THEN 84532 ELSE 8453

\* ------------------------------------------------------------------- keys
Keys == {"kA", "kB"}

\* address derived from a private key (Account.address, checksummed)
AccountAddress(k) == Addr(IF k = "kA" THEN 1 ELSE 2, "checksum")

\* address recovered when a signature is checked against a message other
\* than the one signed: an address no party of the model holds
StrayAddress == Addr(0, "checksum")

\* ---------------------------------------------------------------- vouchers
Voucher(id, buyer, seller, value_aggregate, asset, timestamp, nonce, escrow, chain_id, expiry) ==
  [id |-> id, buyer |-> buyer, seller |-> seller,
   value_aggregate |-> value_aggregate, asset |-> asset,
   timestamp |-> timestamp, nonce |-> nonce, escrow |-> escrow,
   chain_id |-> chain_id, expiry |-> expiry]

\* the value of "no voucher returned"
NoVoucher ==
  Voucher("none", Addr(0, "lower"), Addr(0, "lower"), <<"0">>, Addr(0, "lower"),
          0, 0 - 1, Addr(0, "lower"), 0, 0)

\* -------------------------------------------------------------- typed data
\* typed data that leaves the nonce out of the signed message
get_voucher_typed_data_without_nonce(voucher) ==
  [primaryType |-> "Voucher",
   domain |-> [name |-> "DeferredPaymentEscrow",
               version |-> "1",
               chainId |-> voucher.chain_id,
               verifyingContract |-> to_checksum_address(voucher.escrow)],
   message |-> [id |-> voucher.id,
                buyer |-> to_checksum_address(voucher.buyer),
                seller |-> to_checksum_address(voucher.seller),
                valueAggregate |-> IntOf(voucher.value_aggregate),
                asset |-> to_checksum_address(voucher.asset),
                timestamp |-> voucher.timestamp,
                nonce |-> 0,
                escrow |-> to_checksum_address(voucher.escrow),
                chainId |-> voucher.chain_id,
                expiry |-> voucher.expiry]]

get_voucher_typed_data(voucher) ==
  [primaryType |-> "Voucher",
   domain |-> [name |-> "DeferredPaymentEscrow",
               version |-> "1",
               chainId |-> voucher.chain_id,
               verifyingContract |-> to_checksum_address(voucher.escrow)],
   message |-> [id |-> voucher.id,
                buyer |-> to_checksum_address(voucher.buyer),
                seller |-> to_checksum_address(voucher.seller),
                valueAggregate |-> IntOf(voucher.value_aggregate),
                asset |-> to_checksum_address(voucher.asset),
                timestamp |-> voucher.timestamp,
                nonce |-> voucher.nonce,
                escrow |-> to_checksum_address(voucher.escrow),
                chainId |-> voucher.chain_id,
                expiry |-> voucher.expiry]]

\* -------------------------------------------------------------- signatures
\* A signature string: the key that made it, the message it was made over,
\* and whether its hex text carries the "0x" prefix.
NoMessage == get_voucher_typed_data(NoVoucher)

NoSignature ==
  [kind |-> "none", key |-> "none", msg |-> NoMessage, prefixed |-> FALSE]

\* a string that is not the hex text of a 65-byte signature
MalformedSignature ==
  [kind |-> "malformed", key |-> "none", msg |-> NoMessage, prefixed |-> TRUE]

\* account.sign_message(...).signature.hex(); whether hex() writes "0x"
\* depends on the hexbytes release, hence the parameter
sign_message_hex(key, msg, libPrefix) ==
  [kind |-> "sig", key |-> key, msg |-> msg, prefixed |-> libPrefix]

\* Account.recover_message, for a well-formed signature
recover_message(msg, signature) ==
  IF signature.msg = msg THEN AccountAddress(signature.key) ELSE StrayAddress

SignatureWellFormed(signature) == signature.kind = "sig"

\* sign_voucher returning the hex text as the library wrote it
sign_voucher_raw(key, voucher, libPrefix) ==
  sign_message_hex(key, get_voucher_typed_data(voucher), libPrefix)

sign_voucher(key, voucher, libPrefix) ==
  LET signature == sign_message_hex(key, get_voucher_typed_data(voucher),
                                    libPrefix)
  IN IF ~signature.prefixed THEN [signature EXCEPT !.prefixed = TRUE]
     ELSE signature

\* the recovered address compared with the signer letter for letter
verify_voucher_case_sensitive(voucher, signature, signer) ==
  recover_message(get_voucher_typed_data(voucher), signature) = signer

\* the recovered address compared with the voucher's own buyer field
verify_voucher_own_buyer(voucher, signature, signer) ==
  Lower(recover_message(get_voucher_typed_data(voucher), signature))
    = Lower(voucher.buyer)

\* value returned by verify_voucher when recover_message does not raise
verify_voucher(voucher, signature, signer) ==
  Lower(recover_message(get_voucher_typed_data(voucher), signature))
    = Lower(signer)

\* verify_voucher raises exactly when recover_message does
verify_voucher_raises(voucher, signature) == ~SignatureWellFormed(signature)

\* ------------------------------------------------------------ requirements
Requirements(network, max_amount_required, pay_to, asset, extra) ==
  [network |-> network, max_amount_required |-> max_amount_required,
   pay_to |-> pay_to, asset |-> asset, extra |-> extra]

ExtraNew(id, escrow) ==
  [type |-> "new", voucher |-> [id |-> id, escrow |-> escrow]]

ExtraAggregation(voucher, signature) ==
  [type |-> "aggregation", voucher |-> voucher, signature |-> signature]

\* ------------------------------------------------------- create_new_voucher
\* the voucher built with the buyer argument as given
create_new_voucher_raw_buyer(buyer, payment_requirements, t1, t2) ==
  LET extra == payment_requirements.extra
  IN Voucher(extra.voucher.id,
             buyer,
             to_checksum_address(payment_requirements.pay_to),
             payment_requirements.max_amount_required,
             to_checksum_address(payment_requirements.asset),
             t1,
             0,
             to_checksum_address(extra.voucher.escrow),
             get_chain_id(payment_requirements.network),
             t2 + EXPIRY_TIME)

\* t1 and t2 are the two readings of time.time() the function makes
create_new_voucher(buyer, payment_requirements, t1, t2) ==
  LET extra == payment_requirements.extra
  IN Voucher(extra.voucher.id,
             to_checksum_address(buyer),
             to_checksum_address(payment_requirements.pay_to),
             payment_requirements.max_amount_required,
             to_checksum_address(payment_requirements.asset),
             t1,
             0,
             to_checksum_address(extra.voucher.escrow),
             get_chain_id(payment_requirements.network),
             t2 + EXPIRY_TIME)

\* -------------------------------------------------------- aggregate_voucher
NoError == "none"

\* the five comparisons of the prior voucher with the requirements and the
\* clock
seller_mismatch_exact(payment_requirements, voucher) ==
  payment_requirements.pay_to # voucher.seller

seller_mismatch(payment_requirements, voucher) ==
  Lower(payment_requirements.pay_to) # Lower(voucher.seller)

asset_mismatch(payment_requirements, voucher) ==
  Lower(payment_requirements.asset) # Lower(voucher.asset)

chain_id_mismatch(payment_requirements, voucher) ==
  get_chain_id(payment_requirements.network) # voucher.chain_id

voucher_expired_at_expiry(now, voucher) == now >= voucher.expiry

voucher_expired(now, voucher) == now > voucher.expiry

\* aggregate_voucher without its check of the prior voucher's timestamp
timestamp_in_future_unchecked(now, voucher) == FALSE

timestamp_in_future(now, voucher) == now < voucher.timestamp

\* the checks as a chain that tests the clock before the requirements
aggregate_voucher_error_clock_first(buyer, payment_requirements, now) ==
  LET extra == payment_requirements.extra
      voucher == extra.voucher
  IN IF voucher_expired(now, voucher)
       THEN "Voucher expired"
     ELSE IF timestamp_in_future(now, voucher)
       THEN "Voucher timestamp is in the future"
     ELSE IF seller_mismatch(payment_requirements, voucher)
       THEN "Invalid voucher seller"
     ELSE IF asset_mismatch(payment_requirements, voucher)
       THEN "Invalid voucher asset"
     ELSE IF chain_id_mismatch(payment_requirements, voucher)
       THEN "Invalid voucher chainId"
     ELSE IF verify_voucher_raises(voucher, extra.signature)
       THEN "recover_message raised"
     ELSE IF ~verify_voucher(voucher, extra.signature, buyer)
       THEN "Invalid voucher signature"
     ELSE NoError

\* the validation of the prior voucher: the error raised, or NoError
aggregate_voucher_error(buyer, payment_requirements, now) ==
  LET extra == payment_requirements.extra
      voucher == extra.voucher
  IN IF seller_mismatch(payment_requirements, voucher)
       THEN "Invalid voucher seller"
     ELSE IF asset_mismatch(payment_requirements, voucher)
       THEN "Invalid voucher asset"
     ELSE IF chain_id_mismatch(payment_requirements, voucher)
       THEN "Invalid voucher chainId"
     ELSE IF voucher_expired(now, voucher)
       THEN "Voucher expired"
     ELSE IF timestamp_in_future(now, voucher)
       THEN "Voucher timestamp is in the future"
     ELSE IF verify_voucher_raises(voucher, extra.signature)
       THEN "recover_message raised"
     ELSE IF ~verify_voucher(voucher, extra.signature, buyer)
       THEN "Invalid voucher signature"
     ELSE NoError

\* the two amounts joined as strings instead of added as integers
new_value_aggregate_concat(payment_requirements, voucher) ==
  payment_requirements.max_amount_required \o voucher.value_aggregate

new_value_aggregate(payment_requirements, voucher) ==
  StrOf(IntOf(payment_requirements.max_amount_required)
          + IntOf(voucher.value_aggregate))

\* the successor taking its seller from the requirements
aggregate_voucher_merge_pay_to(buyer, payment_requirements, now) ==
  LET voucher == payment_requirements.extra.voucher
  IN Voucher(voucher.id,
             to_checksum_address(buyer),
             payment_requirements.pay_to,
             new_value_aggregate(payment_requirements, voucher),
             voucher.asset,
             now,
             voucher.nonce + 1,
             voucher.escrow,
             voucher.chain_id,
             now + EXPIRY_TIME)

\* the successor voucher built once the validation has passed
aggregate_voucher_merge(buyer, payment_requirements, now) ==
  LET voucher == payment_requirements.extra.voucher
  IN Voucher(voucher.id,
             to_checksum_address(buyer),
             voucher.seller,
             new_value_aggregate(payment_requirements, voucher),
             voucher.asset,
             now,
             voucher.nonce + 1,
             voucher.escrow,
             voucher.chain_id,
             now + EXPIRY_TIME)

\* the vouchers of the current lineage, original first
VARIABLE lineage

\* aggregate_voucher coordinated through the vouchers on record: a prior
\* voucher that already has a successor is refused
aggregate_voucher_once(buyer, payment_requirements, now) ==
  LET prior == payment_requirements.extra.voucher
      err == aggregate_voucher_error(buyer, payment_requirements, now)
  IN IF \E i \in 1..Len(lineage) :
          lineage[i].id = prior.id /\ lineage[i].nonce > prior.nonce
     THEN [err |-> "Voucher already extended", voucher |-> NoVoucher]
     ELSE [err |-> err,
           voucher |-> IF err = NoError
                       THEN aggregate_voucher_merge(buyer,
                                                    payment_requirements, now)
                       ELSE NoVoucher]

aggregate_voucher(buyer, payment_requirements, now) ==
  LET err == aggregate_voucher_error(buyer, payment_requirements, now)
  IN [err |-> err,
      voucher |-> IF err = NoError
                  THEN aggregate_voucher_merge(buyer, payment_requirements, now)
                  ELSE NoVoucher]

\* ---------------------------------------------------------- payment header
\* The text of a hex string held as a str, and the same bytes held as a
\* HexBytes value.
PyStr(hex) == [py |-> "str", hex |-> hex, prefixed |-> TRUE]

HexBytes(hex) == [py |-> "HexBytes", hex |-> hex]

\* voucher.model_dump(by_alias=True)
model_dump(voucher) ==
  [id |-> PyStr(voucher.id), buyer |-> voucher.buyer,
   seller |-> voucher.seller, valueAggregate |-> voucher.value_aggregate,
   asset |-> voucher.asset, timestamp |-> voucher.timestamp,
   nonce |-> voucher.nonce, escrow |-> voucher.escrow,
   chainId |-> voucher.chain_id, expiry |-> voucher.expiry]

\* DeferredEvmPayloadVoucher(**voucher_dict)
model_validate(voucher_dict) ==
  Voucher(voucher_dict.id.hex, voucher_dict.buyer, voucher_dict.seller,
          voucher_dict.valueAggregate, voucher_dict.asset,
          voucher_dict.timestamp, voucher_dict.nonce, voucher_dict.escrow,
          voucher_dict.chainId, voucher_dict.expiry)

PaymentHeader(x402Version, scheme, network, signature, voucher_dict) ==
  [x402Version |-> x402Version, scheme |-> scheme, network |-> network,
   payload |-> [signature |-> signature, voucher |-> voucher_dict]]

NoHeader ==
  PaymentHeader(0, "none", "none", NoSignature, model_dump(NoVoucher))

\* extra values that are not a dict with entries: None and {}
ExtraNone == [py |-> "None"]

ExtraEmpty == [py |-> "{}"]

\* `not payment_requirements.extra`
extra_is_falsy(extra) == "py" \in DOMAIN extra

\* the dispatch taking every type other than "aggregation" for "new"
prepare_payment_header_any_type(sender_address, x402_version, payment_requirements, t1, t2) ==
  LET extra == payment_requirements.extra
  IN IF extra_is_falsy(extra) \/ "type" \notin DOMAIN extra
       THEN [err |-> "Payment requirements extra must contain 'type' field",
             header |-> NoHeader]
     ELSE IF extra.type = "aggregation"
       THEN LET res == aggregate_voucher(sender_address,
                                         payment_requirements, t1)
            IN [err |-> res.err,
                header |-> IF res.err # NoError THEN NoHeader
                           ELSE PaymentHeader(x402_version, DEFERRED_SCHEME,
                                              payment_requirements.network,
                                              NoSignature,
                                              model_dump(res.voucher))]
     ELSE [err |-> NoError,
           header |-> PaymentHeader(
                        x402_version, DEFERRED_SCHEME,
                        payment_requirements.network, NoSignature,
                        model_dump(create_new_voucher(
                                     sender_address, payment_requirements,
                                     t1, t2)))]

\* t1 and t2 are the readings of time.time() made by the voucher function
\* called
prepare_payment_header(sender_address, x402_version, payment_requirements, t1, t2) ==
  LET extra == payment_requirements.extra
  IN IF extra_is_falsy(extra) \/ "type" \notin DOMAIN extra
       THEN [err |-> "Payment requirements extra must contain 'type' field",
             header |-> NoHeader]
     ELSE IF extra.type = "new"
       THEN [err |-> NoError,
             header |-> PaymentHeader(
                          x402_version, DEFERRED_SCHEME,
                          payment_requirements.network, NoSignature,
                          model_dump(create_new_voucher(
                                       sender_address, payment_requirements,
                                       t1, t2)))]
     ELSE IF extra.type = "aggregation"
       THEN LET res == aggregate_voucher(sender_address,
                                         payment_requirements, t1)
            IN [err |-> res.err,
                header |-> IF res.err # NoError THEN NoHeader
                           ELSE PaymentHeader(x402_version, DEFERRED_SCHEME,
                                              payment_requirements.network,
                                              NoSignature,
                                              model_dump(res.voucher))]
     ELSE [err |-> "Unknown voucher type", header |-> NoHeader]

\* ------------------------------------------------------------ payload codec
\* x402.encoding: base64 text of a string, and its inverse
safe_base64_encode(text) == [b64 |-> text]

safe_base64_decode(encoded) == encoded.b64

\* the `default` hook of json.dumps, called for values json cannot write:
\* obj.hex(), whose "0x" prefix depends on the hexbytes release
json_default(obj, libPrefix) ==
  [json |-> "string", hex |-> obj.hex, prefixed |-> libPrefix]

\* JSON text of a value holding hex text
json_dumps_hex(obj, libPrefix) ==
  IF obj.py = "str"
  THEN [json |-> "string", hex |-> obj.hex, prefixed |-> obj.prefixed]
  ELSE json_default(obj, libPrefix)

\* JSON text of the signature entry: null for None
json_dumps_signature(signature) ==
  IF signature = NoSignature THEN [json |-> "null"]
  ELSE [json |-> "string", text |-> signature]

json_dumps(payment_payload, libPrefix) ==
  [payment_payload EXCEPT
     !.payload.signature = json_dumps_signature(@),
     !.payload.voucher.id = json_dumps_hex(@, libPrefix)]

json_loads(text) ==
  [text EXCEPT
     !.payload.signature = IF @.json = "null" THEN NoSignature ELSE @.text,
     !.payload.voucher.id = [py |-> "str", hex |-> @.hex,
                             prefixed |-> @.prefixed]]

encode_payment(payment_payload, libPrefix) ==
  safe_base64_encode(json_dumps(payment_payload, libPrefix))

decode_payment(encoded_payment) ==
  json_loads(safe_base64_decode(encoded_payment))

NoEncoding == safe_base64_encode("")

\* ------------------------------------------------------ sign_payment_header
\* the outcome of sign_payment_header: the error raised or the encoding
\* returned, and the header as the call leaves it
sign_payment_header(key, header, libPrefix) ==
  IF "voucher" \notin DOMAIN header.payload
  THEN [err |-> "Failed to sign payment header: 'voucher'",
        encoded |-> NoEncoding, header |-> header]
  ELSE LET voucher == model_validate(header.payload.voucher)
           sig == sign_voucher(key, voucher, libPrefix)
           signed == [header EXCEPT !.payload.signature = sig]
       IN [err |-> NoError,
           encoded |-> encode_payment(signed, libPrefix),
           header |-> signed]

\* ------------------------------------------------------------------ inputs
BuyerArgs == {Addr(1, "checksum"), Addr(1, "lower"), Addr(2, "checksum")}

Amounts == {<<"0">>, <<"5">>, <<"-", "3">>}

NewRequirements ==
  {Requirements("base-sepolia", <<"5">>, Addr(3, "lower"), Addr(5, "lower"),
                ExtraNew("id1", Addr(7, "lower"))),
   Requirements("base", <<"0", "7">>, Addr(4, "upper"), Addr(6, "checksum"),
                ExtraNew("id3", Addr(7, "upper")))}

\* requirements whose extra is None, is {}, has no 'type', or has a type
\* that is neither "new" nor "aggregation"
MalformedRequirements ==
  {Requirements("base-sepolia", <<"5">>, Addr(3, "lower"), Addr(5, "lower"),
                e) :
     e \in {ExtraNone, ExtraEmpty,
            [voucher |-> [id |-> "id1", escrow |-> Addr(7, "lower")]],
            [type |-> "other",
             voucher |-> [id |-> "id1", escrow |-> Addr(7, "lower")]]}}

Versions == {1, 2}

AggregationPayTos == {Addr(3, "lower"), Addr(4, "lower")}

AggregationAssets == {Addr(5, "upper"), Addr(6, "lower")}

\* vouchers a caller builds directly, as the test fixtures do: one stamped
\* before the start of the behaviour, one stamped after it, and one whose
\* expiry lies before the start and whose timestamp lies beyond the end
FixtureVouchers ==
  {Voucher("id2", AccountAddress("kA"), Addr(3, "checksum"), <<"5">>,
           Addr(5, "lower"), StartTime + ts, 1, Addr(7, "checksum"), 84532,
           StartTime + ex) :
     <<ts, ex>> \in {<<0 - 100, EXPIRY_TIME - 100>>,
                     <<100, EXPIRY_TIME + 100>>,
                     <<3 * EXPIRY_TIME, 0 - 100>>}}

\* ------------------------------------------------------------------- state
VARIABLES
  clock,      \* the wall clock, int(time.time())
  signature,  \* the signature string the caller holds
  last        \* the call that has just returned: its arguments and outcome

vars == <<clock, lineage, signature, last>>

Latest == lineage[Len(lineage)]

\* the instants of a behaviour: up to MaxSeconds single seconds after the
\* start, and the same after one expiry period has gone by
ClockMayAdvance(d) ==
  LET elapsed == clock + d - StartTime
  IN /\ elapsed \div EXPIRY_TIME <= 1
     /\ elapsed % EXPIRY_TIME <= MaxSeconds

\* no outcome is pending: the caller is free to make its next call
Idle == last.op = "idle"

Init ==
  /\ clock = StartTime
  /\ lineage = <<>>
  /\ signature = NoSignature
  /\ last = [op |-> "idle"]

\* the wall clock advances between calls
Tick ==
  /\ Idle
  /\ \E d \in {1, EXPIRY_TIME} :
       /\ ClockMayAdvance(d)
       /\ clock' = clock + d
  /\ UNCHANGED <<lineage, signature, last>>

\* a caller builds a voucher directly and holds it as the prior voucher
ConstructVoucher ==
  /\ Idle
  /\ \E v \in FixtureVouchers :
       /\ lineage' = <<v>>
       /\ last' = [op |-> "construct", voucher |-> v]
  /\ signature' = NoSignature
  /\ UNCHANGED clock

CreateNewVoucher ==
  \E buyer \in BuyerArgs, req \in NewRequirements, d \in 0..MaxSeconds :
    /\ Idle
    /\ ClockMayAdvance(d)
    /\ LET v == create_new_voucher(buyer, req, clock, clock + d)
       IN /\ lineage' = <<v>>
          /\ last' = [op |-> "create", buyer |-> buyer, req |-> req,
                      now |-> clock, err |-> NoError, voucher |-> v]
    /\ clock' = clock + d
    /\ signature' = NoSignature

\* the holder of key k signs the latest voucher of the lineage
SignVoucher ==
  /\ Idle
  /\ lineage # <<>>
  /\ \E k \in Keys, libPrefix \in BOOLEAN :
       /\ signature' = sign_voucher(k, Latest, libPrefix)
       /\ last' = [op |-> "sign", key |-> k, voucher |-> Latest,
                   signature |-> signature']
  /\ UNCHANGED <<clock, lineage>>

VerifyVoucher ==
  /\ Idle
  /\ lineage # <<>>
  /\ signature # NoSignature
  /\ \E signer \in BuyerArgs, sig \in {signature, MalformedSignature} :
       last' = [op |-> "verify", voucher |-> Latest, signature |-> sig,
                signer |-> signer,
                raised |-> verify_voucher_raises(Latest, sig),
                result |-> IF verify_voucher_raises(Latest, sig) THEN FALSE
                           ELSE verify_voucher(Latest, sig, signer)]
  /\ UNCHANGED <<clock, lineage, signature>>

\* aggregate_voucher updating the prior voucher it was given in place
AggregateVoucherInPlace ==
  /\ Idle
  /\ lineage # <<>>
  /\ Len(lineage) < MaxLineage
  /\ signature # NoSignature
  /\ \E buyer \in BuyerArgs, n \in Networks, m \in Amounts,
        p \in AggregationPayTos, a \in AggregationAssets :
       LET req == Requirements(n, m, p, a,
                               ExtraAggregation(Latest, signature))
           res == aggregate_voucher(buyer, req, clock)
           updated == IF res.err = NoError
                      THEN [lineage EXCEPT ![Len(lineage)] = res.voucher]
                      ELSE lineage
       IN /\ last' = [op |-> "aggregate", buyer |-> buyer,
                      req |-> [req EXCEPT !.extra.voucher =
                                            updated[Len(lineage)]],
                      now |-> clock, err |-> res.err,
                      voucher |-> res.voucher]
          /\ lineage' = updated
  /\ UNCHANGED <<clock, signature>>

AggregateVoucher ==
  /\ Idle
  /\ lineage # <<>>
  /\ Len(lineage) < MaxLineage
  /\ signature # NoSignature
  /\ \E buyer \in BuyerArgs, n \in Networks, m \in Amounts,
        p \in AggregationPayTos, a \in AggregationAssets :
       LET req == Requirements(n, m, p, a,
                               ExtraAggregation(Latest, signature))
           res == aggregate_voucher(buyer, req, clock)
       IN /\ last' = [op |-> "aggregate", buyer |-> buyer, req |-> req,
                      now |-> clock, err |-> res.err,
                      voucher |-> res.voucher]
          /\ lineage' = IF res.err = NoError
                        THEN Append(lineage, res.voucher) ELSE lineage
  /\ UNCHANGED <<clock, signature>>

\* the caller presents the successor it has just received together with the
\* signature it still holds, the one made over the prior voucher
AggregateSuccessor ==
  /\ last.op = "aggregate"
  /\ last.err = NoError
  /\ Len(lineage) <= MaxLineage
  /\ \E buyer \in BuyerArgs :
       LET req == [last.req EXCEPT
                     !.extra = ExtraAggregation(last.voucher, signature)]
           res == aggregate_voucher(buyer, req, clock)
       IN /\ last' = [op |-> "aggregate", buyer |-> buyer, req |-> req,
                      now |-> clock, err |-> res.err,
                      voucher |-> res.voucher, first |-> last]
          /\ lineage' = IF res.err = NoError
                        THEN Append(lineage, res.voucher) ELSE lineage
  /\ UNCHANGED <<clock, signature>>

\* a second, independent caller presents the prior voucher and signature of
\* the aggregation that has just succeeded, at once or a little later
AggregateAgain ==
  /\ last.op = "aggregate"
  /\ last.err = NoError
  /\ \E buyer \in BuyerArgs, d \in 0..MaxSeconds :
       /\ ClockMayAdvance(d)
       /\ LET res == aggregate_voucher(buyer, last.req, clock + d)
          IN last' = [op |-> "aggregate_again", first |-> last,
                      buyer |-> buyer, req |-> last.req, now |-> clock + d,
                      err |-> res.err, voucher |-> res.voucher]
       /\ clock' = clock + d
  /\ UNCHANGED <<lineage, signature>>

\* the address fields of a voucher
AddressFields == {"buyer", "seller", "asset", "escrow"}

\* the voucher with one address field written in another letter case
Recased(voucher, field, form) ==
  [voucher EXCEPT ![field] = Addr(@.a, form)]

\* the signature made over the voucher held is verified against that
\* voucher with one of its addresses in another letter case
VerifyRecasedVoucher ==
  /\ Idle
  /\ lineage # <<>>
  /\ signature # NoSignature
  /\ signature.msg = get_voucher_typed_data(Latest)
  /\ \E field \in AddressFields :
       LET form == IF Latest[field].form = "upper" THEN "lower" ELSE "upper"
           recased == Recased(Latest, field, form)
           signer == Lower(AccountAddress(signature.key))
       IN last' = [op |-> "verify_recased", voucher |-> Latest,
                   recased |-> recased, signature |-> signature,
                   signer |-> signer,
                   result |-> verify_voucher(recased, signature, signer)]
  /\ UNCHANGED <<clock, lineage, signature>>

\* the requirements a caller prepares a header for: a first payment (or
\* malformed requirements) while it holds no voucher, an aggregation of the
\* voucher and signature it holds afterwards
PrepareRequirements ==
  IF lineage = <<>> THEN NewRequirements \cup MalformedRequirements
  ELSE IF signature = NoSignature \/ Len(lineage) >= MaxLineage THEN {}
  ELSE {Requirements(n, <<"5">>, Lower(Latest.seller), Lower(Latest.asset),
                     ExtraAggregation(Latest, signature)) : n \in Networks}

PreparePaymentHeader ==
  /\ Idle
  /\ \E sender \in BuyerArgs, version \in Versions,
        req \in PrepareRequirements, d \in 0..MaxSeconds :
       /\ ClockMayAdvance(d)
       /\ (d > 0 => ~extra_is_falsy(req.extra) /\ "type" \in DOMAIN req.extra
                      /\ req.extra.type = "new")
       /\ LET res == prepare_payment_header(sender, version, req, clock,
                                            clock + d)
          IN last' = [op |-> "prepare", sender |-> sender,
                      version |-> version, req |-> req, now |-> clock,
                      err |-> res.err, header |-> res.header]
       /\ clock' = clock + d
  /\ UNCHANGED <<lineage, signature>>

\* the caller signs the header it has just prepared; `broken` stands for a
\* header whose payload carries no voucher
SignPaymentHeader ==
  /\ last.op = "prepare"
  /\ last.err = NoError
  /\ \E k \in Keys, libPrefix \in BOOLEAN, broken \in BOOLEAN :
       /\ broken => (k = "kA" /\ libPrefix)
       /\ LET header == IF broken
                         THEN [last.header EXCEPT
                                 !.payload = [signature |-> NoSignature]]
                         ELSE last.header
              res == sign_payment_header(k, header, libPrefix)
          IN last' = [op |-> "sign_header", key |-> k, input |-> header,
                      libPrefix |-> libPrefix,
                      err |-> res.err, encoded |-> res.encoded,
                      header |-> res.header]
  /\ UNCHANGED <<clock, lineage, signature>>

\* the caller encodes a header it holds, unsigned or signed, with the
\* voucher id as text or as a byte array, and decodes the result
EncodeDecodePayment ==
  /\ last.op \in {"prepare", "sign_header"}
  /\ last.err = NoError
  /\ \E asBytes \in BOOLEAN, libPrefix \in BOOLEAN :
       LET header == IF asBytes
                     THEN [last.header EXCEPT
                             !.payload.voucher.id = HexBytes(@.hex)]
                     ELSE last.header
           encoded == encode_payment(header, libPrefix)
       IN last' = [op |-> "codec", header |-> header, encoded |-> encoded,
                   decoded |-> decode_payment(encoded)]
  /\ UNCHANGED <<clock, lineage, signature>>

\* the caller takes the outcome of the call that has returned
Return ==
  /\ ~Idle
  /\ last' = [op |-> "idle"]
  /\ UNCHANGED <<clock, lineage, signature>>

Next ==
  \/ Tick
  \/ ConstructVoucher
  \/ CreateNewVoucher
  \/ SignVoucher
  \/ VerifyVoucher
  \/ VerifyRecasedVoucher
  \/ AggregateVoucher
  \/ AggregateSuccessor
  \/ AggregateAgain
  \/ PreparePaymentHeader
  \/ SignPaymentHeader
  \/ EncodeDecodePayment
  \/ Return

Spec == Init /\ [][Next]_vars

\* ------------------------------------------------------------------ claims
\* what the claims say of an aggregate_voucher call, read off its arguments
Aggregated == last.op = "aggregate"

Prior == last.req.extra.voucher

Presented == last.req.extra.signature

SellerDiffers == last.req.pay_to.a # Prior.seller.a

AssetDiffers == last.req.asset.a # Prior.asset.a

ChainDiffers ==
  \/ last.req.network = "base-sepolia" /\ Prior.chain_id # 84532
  \/ last.req.network = "base" /\ Prior.chain_id # 8453

PastExpiry == last.now > Prior.expiry

BeforeTimestamp == last.now < Prior.timestamp

\* the presented signature was made with key k over the prior voucher
SignedBy(k) ==
  /\ Presented.kind = "sig"
  /\ Presented.key = k
  /\ Presented.msg = get_voucher_typed_data(Prior)

\* the buyer argument is, letter case aside, the address of some key that
\* signed the prior voucher
SignedByBuyer ==
  \E k \in Keys : SignedBy(k) /\ AccountAddress(k).a = last.buyer.a

\* the i-th check, in the order of the claim, is violated
Violated(i) ==
  CASE i = 1 -> SellerDiffers
    [] i = 2 -> AssetDiffers
    [] i = 3 -> ChainDiffers
    [] i = 4 -> PastExpiry
    [] i = 5 -> BeforeTimestamp
    [] i = 6 -> ~SignedByBuyer

CheckErrors ==
  <<"Invalid voucher seller", "Invalid voucher asset",
    "Invalid voucher chainId", "Voucher expired",
    "Voucher timestamp is in the future", "Invalid voucher signature">>

ViolatedChecks == {i \in 1..6 : Violated(i)}

Earliest(checks) == CHOOSE i \in checks : \A j \in checks : i <= j

\* C1: when the input of aggregate_voucher violates two or more of the
\* checks seller, asset, chain id, expiry, timestamp, signature, the error
\* raised is that of the earliest violated check and no voucher is returned.
C1_FirstFailureReported ==
  Aggregated
    => LET checks == ViolatedChecks
       IN Cardinality(checks) >= 2
            => /\ last.err = CheckErrors[Earliest(checks)]
               /\ last.voucher = NoVoucher

\* an expired prior voucher presented with the wrong asset: the asset error
C1_Witness ==
  /\ Aggregated
  /\ ~SellerDiffers /\ AssetDiffers /\ PastExpiry
  /\ last.err = "Invalid voucher asset"

C3_AdditiveAndNonceStep ==
  (/\ Aggregated
   /\ last.err = NoError
   /\ IntOf(Prior.value_aggregate) >= 0
   /\ IntOf(last.req.max_amount_required) >= 0)
    => /\ last.voucher.value_aggregate
            = StrOf(IntOf(Prior.value_aggregate)
                      + IntOf(last.req.max_amount_required))
       /\ last.voucher.nonce = Prior.nonce + 1

\* "07" plus "5" gives "12"
C3_Witness ==
  /\ Aggregated
  /\ last.err = NoError
  /\ Prior.value_aggregate = <<"0", "7">>
  /\ last.req.max_amount_required = <<"5">>
  /\ last.voucher.value_aggregate = <<"1", "2">>

\* C4: every voucher of a lineage has the id, seller, asset, chain_id and
\* escrow of the lineage's original voucher.
C4_LineageFieldsFixed ==
  \A i \in 1..Len(lineage) :
    /\ lineage[i].id = lineage[1].id
    /\ lineage[i].seller = lineage[1].seller
    /\ lineage[i].asset = lineage[1].asset
    /\ lineage[i].chain_id = lineage[1].chain_id
    /\ lineage[i].escrow = lineage[1].escrow

\* a successor obtained with pay_to written in another letter case than the
\* original's seller
C4_Witness ==
  /\ Aggregated
  /\ last.err = NoError
  /\ Len(lineage) >= 2
  /\ lineage[Len(lineage)] = last.voucher
  /\ last.req.pay_to # lineage[1].seller

\* C5: the successor's value_aggregate is never below the prior voucher's,
\* whatever max_amount_required the requirements carry.
C5_ValueNeverDecreases ==
  (Aggregated /\ last.err = NoError)
    => IntOf(last.voucher.value_aggregate) >= IntOf(Prior.value_aggregate)

\* C6: with seller, asset and chain id matching, a call made after the prior
\* voucher's expiry fails with 'Voucher expired' and returns no voucher,
\* whatever the signature; a call made at or before expiry never fails with
\* that error.
C6_ExpiredRejected ==
  Aggregated
    => /\ (~SellerDiffers /\ ~AssetDiffers /\ ~ChainDiffers /\ PastExpiry)
            => /\ last.err = "Voucher expired"
               /\ last.voucher = NoVoucher
       /\ ~PastExpiry => last.err # "Voucher expired"

\* the buyer's own valid signature does not save an expired voucher
C6_Witness ==
  /\ Aggregated
  /\ PastExpiry
  /\ SignedByBuyer
  /\ last.err = "Voucher expired"

\* C7: every voucher returned by create_new_voucher or aggregate_voucher has
\* expiry - timestamp equal to 30 days.
C7_ExpiryThirtyDaysAfterTimestamp ==
  (last.op \in {"create", "aggregate"} /\ last.err = NoError)
    => last.voucher.expiry - last.voucher.timestamp = 2592000

\* C8: create_new_voucher returns nonce 0, max_amount_required unmodified,
\* the seed id, the chain id of the network, and buyer, pay_to, asset and
\* seed escrow in checksummed form.
C8_NewVoucherFields ==
  last.op = "create"
    => /\ last.voucher.nonce = 0
       /\ last.voucher.value_aggregate = last.req.max_amount_required
       /\ last.voucher.id = last.req.extra.voucher.id
       /\ last.voucher.chain_id
            = (IF last.req.network = "base-sepolia" THEN 84532 ELSE 8453)
       /\ last.voucher.buyer = Addr(last.buyer.a, "checksum")
       /\ last.voucher.seller = Addr(last.req.pay_to.a, "checksum")
       /\ last.voucher.asset = Addr(last.req.asset.a, "checksum")
       /\ last.voucher.escrow = Addr(last.req.extra.voucher.escrow.a, "checksum")

\* a lower-case buyer and the amount "07", kept with its leading zero
C8_Witness ==
  /\ last.op = "create"
  /\ last.buyer.form = "lower"
  /\ last.req.max_amount_required = <<"0", "7">>
  /\ last.voucher.value_aggregate = <<"0", "7">>

\* C9: verifying the signature key K made over a voucher returns true
\* exactly for the addresses equal, letter case aside, to K's address, returns
\* false for the others, and never raises.
C9_VerifiesOnlyForSigner ==
  \A k \in Keys :
    (/\ last.op = "verify"
     /\ \E libPrefix \in BOOLEAN :
          last.signature = sign_voucher(k, last.voucher, libPrefix))
      => /\ ~last.raised
         /\ last.result = (last.signer.a = AccountAddress(k).a)

\* the signer's address in lower case is accepted
C9_Witness ==
  /\ last.op = "verify"
  /\ last.signature = sign_voucher("kA", last.voucher, TRUE)
  /\ last.signer = Addr(1, "lower")
  /\ last.result

\* C10: when exactly one of seller, asset and chain id differs between the
\* prior voucher and the requirements, the call fails with that field's
\* error and returns no voucher; a pay_to or asset that differs from the
\* voucher's only in letter case raises neither error.
C10_MismatchErrors ==
  Aggregated
    => /\ (SellerDiffers /\ ~AssetDiffers /\ ~ChainDiffers)
            => last.err = "Invalid voucher seller" /\ last.voucher = NoVoucher
       /\ (~SellerDiffers /\ AssetDiffers /\ ~ChainDiffers)
            => last.err = "Invalid voucher asset" /\ last.voucher = NoVoucher
       /\ (~SellerDiffers /\ ~AssetDiffers /\ ChainDiffers)
            => last.err = "Invalid voucher chainId" /\ last.voucher = NoVoucher
       /\ ~SellerDiffers => last.err # "Invalid voucher seller"
       /\ ~AssetDiffers => last.err # "Invalid voucher asset"

\* pay_to differs from the seller in letter case only, the asset is another
\* token: the asset error, not the seller error
C10_Witness ==
  /\ Aggregated
  /\ last.req.pay_to # Prior.seller
  /\ ~SellerDiffers /\ AssetDiffers /\ ~ChainDiffers
  /\ last.err = "Invalid voucher asset"

\* the header a decoder must return: the same header, a byte-array voucher
\* id being read back as its 0x-prefixed hex string
AsWritten(header) ==
  [header EXCEPT !.payload.voucher.id = PyStr(@.hex)]

\* C11: decode_payment(encode_payment(h)) is h for every well-formed header
\* h, also when its signature is null, a voucher id held as a byte array
\* coming back as its 0x-prefixed hex string.
C11_RoundTrip ==
  last.op = "codec" => last.decoded = AsWritten(last.header)

\* C12: prepare_payment_header fails, producing no header, when extra is
\* missing or empty, has no 'type', or has a type that is neither "new" nor
\* "aggregation"; for "new" it returns the voucher of create_new_voucher and
\* for "aggregation" that of aggregate_voucher, in a header with scheme
\* "deferred", the requirements' network, the given version and no
\* signature.
Prepared == last.op = "prepare"

ExtraTypeOf(extra) ==
  IF "py" \in DOMAIN extra THEN "<no extra>"
  ELSE IF "type" \notin DOMAIN extra THEN "<no type>"
  ELSE extra.type

C12_PrepareDispatch ==
  Prepared
    => LET type == ExtraTypeOf(last.req.extra)
       IN /\ type \notin {"new", "aggregation"}
               => last.err # NoError /\ last.header = NoHeader
          /\ last.err = NoError
               => /\ last.header.x402Version = last.version
                  /\ last.header.scheme = "deferred"
                  /\ last.header.network = last.req.network
                  /\ last.header.payload.signature = NoSignature
          /\ (type = "new" /\ last.err = NoError)
               => /\ last.header.payload.voucher.nonce = 0
                  /\ last.header.payload.voucher.id.hex
                       = last.req.extra.voucher.id
                  /\ last.header.payload.voucher.buyer
                       = Addr(last.sender.a, "checksum")
                  /\ last.header.payload.voucher.valueAggregate
                       = last.req.max_amount_required
          /\ (type = "aggregation" /\ last.err = NoError)
               => /\ last.header.payload.voucher.nonce
                       = last.req.extra.voucher.nonce + 1
                  /\ last.header.payload.voucher.id.hex
                       = last.req.extra.voucher.id
                  /\ last.header.payload.voucher.timestamp = last.now
          /\ (type = "aggregation" /\ last.err # NoError)
               => last.header = NoHeader

\* a type that is neither "new" nor "aggregation" is refused
C12_Witness ==
  /\ Prepared
  /\ ExtraTypeOf(last.req.extra) = "other"
  /\ last.err = "Unknown voucher type"
  /\ last.header = NoHeader

\* C13: whenever aggregate_voucher succeeds, the prior voucher's own buyer
\* field equals, letter case aside, the buyer argument.
C13_PriorBuyerIsCaller ==
  (Aggregated /\ last.err = NoError) => Prior.buyer.a = last.buyer.a

\* C14: two aggregate_voucher calls given the same prior voucher and
\* signature are not coordinated: when the first has succeeded, the second,
\* made for the same buyer address, succeeds too and returns a successor with
\* the same id and the same nonce, the prior nonce + 1, unless the prior
\* voucher has expired between the two calls.
C14_UncoordinatedExtensions ==
  (/\ last.op = "aggregate_again"
   /\ last.buyer.a = last.first.buyer.a
   /\ last.now <= last.req.extra.voucher.expiry)
    => /\ last.err = NoError
       /\ last.voucher.id = last.first.voucher.id
       /\ last.voucher.nonce = last.first.voucher.nonce
       /\ last.voucher.nonce = last.req.extra.voucher.nonce + 1

\* the first successor is on record when the second call returns its own
C14_Witness ==
  /\ last.op = "aggregate_again"
  /\ last.err = NoError
  /\ Latest = last.first.voucher
  /\ last.voucher.nonce = Latest.nonce
  /\ last.voucher.id = Latest.id

\* C15: aggregate_voucher has no side effects on its inputs: after any call,
\* successful or failed at any check, the prior voucher, its signature and
\* the payment requirements are what the caller passed in, and a successor
\* is a new voucher value held next to the prior one.
C15_InputsUntouched ==
  [][(Idle /\ last'.op = "aggregate")
       => /\ signature' = signature
          /\ SubSeq(lineage', 1, Len(lineage)) = lineage
          /\ last'.req.extra = ExtraAggregation(Latest, signature)
          /\ IF last'.err = NoError
             THEN /\ lineage' = Append(lineage, last'.voucher)
                  /\ last'.voucher # Latest
             ELSE /\ lineage' = lineage
                  /\ last'.voucher = NoVoucher]_vars

\* a successful call leaves the prior voucher and its signature as they were
C15_Witness ==
  /\ Aggregated
  /\ last.err = NoError
  /\ Len(lineage) = 2
  /\ lineage[1] = Prior
  /\ lineage[2] = last.voucher
  /\ Presented = signature
  /\ verify_voucher(lineage[1], signature, last.buyer)

\* C16: timestamp is non-decreasing across a lineage: aggregate_voucher
\* fails with 'Voucher timestamp is in the future' whenever the current time
\* is less than the prior voucher's timestamp and the earlier checks pass, so
\* every successor returned has timestamp >= the prior voucher's timestamp.
C16_TimestampNonDecreasing ==
  /\ Aggregated
       => /\ (/\ ~SellerDiffers /\ ~AssetDiffers /\ ~ChainDiffers
              /\ ~PastExpiry /\ BeforeTimestamp)
               => /\ last.err = "Voucher timestamp is in the future"
                  /\ last.voucher = NoVoucher
          /\ last.err = NoError
               => last.voucher.timestamp >= Prior.timestamp
  /\ \A i \in 1..(Len(lineage) - 1) :
       lineage[i].timestamp <= lineage[i + 1].timestamp

\* a validly signed prior voucher dated after the current time is refused
C16_Witness ==
  /\ Aggregated
  /\ BeforeTimestamp
  /\ SignedByBuyer
  /\ last.err = "Voucher timestamp is in the future"
  /\ last.voucher = NoVoucher

\* the call presents the successor of the call before it
Successive == Aggregated /\ "first" \in DOMAIN last

\* C17: the signature over a prior voucher V1 does not authorize its
\* successor V2 = aggregate_voucher(B, V1, sig(V1)): verify_voucher(V2,
\* sig(V1), B) is false, and a further aggregate_voucher call presenting V2
\* with the old signature returns no voucher, failing with 'Invalid voucher
\* signature' when the five earlier checks pass.
C17_OldSignatureDoesNotCarryOver ==
  Successive
    => /\ Prior = last.first.voucher
       /\ Presented = last.first.req.extra.signature
       /\ ~verify_voucher(Prior, Presented, last.first.buyer)
       /\ last.err # NoError
       /\ last.voucher = NoVoucher
       /\ (/\ ~SellerDiffers /\ ~AssetDiffers /\ ~ChainDiffers
           /\ ~PastExpiry /\ ~BeforeTimestamp)
            => last.err = "Invalid voucher signature"

\* the buyer of the first call presents its successor with the signature
\* that the first call accepted
C17_Witness ==
  /\ Successive
  /\ last.buyer = last.first.buyer
  /\ verify_voucher(last.first.req.extra.voucher, Presented, last.buyer)
  /\ Prior.nonce = last.first.req.extra.voucher.nonce + 1
  /\ last.err = "Invalid voucher signature"

SignedHeader == last.op = "sign_header"

\* C18: sign_payment_header stores the signature of the header's voucher into
\* header.payload.signature and returns the encoding of that header: decoding
\* the result yields the x402Version, scheme, network and voucher of the input
\* header with a 0x-prefixed signature that verify_voucher accepts for the
\* account's address; a failure while signing is raised again wrapped with
\* context, and nothing is returned.
C18_SignedHeaderDecodes ==
  SignedHeader
    => IF "voucher" \in DOMAIN last.input.payload
       THEN LET decoded == decode_payment(last.encoded)
                sig == decoded.payload.signature
            IN /\ last.err = NoError
               /\ last.header.payload.signature = sig
               /\ decoded = last.header
               /\ decoded.x402Version = last.input.x402Version
               /\ decoded.scheme = last.input.scheme
               /\ decoded.network = last.input.network
               /\ decoded.payload.voucher = last.input.payload.voucher
               /\ sig.prefixed
               /\ SignatureWellFormed(sig)
               /\ verify_voucher(model_validate(decoded.payload.voucher),
                                 sig, AccountAddress(last.key))
       ELSE /\ last.err = "Failed to sign payment header: 'voucher'"
            /\ last.encoded = NoEncoding

\* a header signed with a library that writes no "0x" still verifies
C18_Witness ==
  /\ SignedHeader
  /\ last.err = NoError
  /\ last.input.payload.signature = NoSignature
  /\ ~last.libPrefix
  /\ decode_payment(last.encoded).payload.signature.prefixed
  /\ verify_voucher(model_validate(last.input.payload.voucher),
                    decode_payment(last.encoded).payload.signature,
                    AccountAddress(last.key))

\* C19: get_voucher_typed_data normalizes every address field, so two
\* vouchers that differ only in the letter case of buyer, seller, asset or
\* escrow produce the identical typed message (domain and body), and a
\* signature made over one verifies for the other.
C19_LetterCaseIrrelevant ==
  last.op = "verify_recased"
    => /\ get_voucher_typed_data(last.recased)
            = get_voucher_typed_data(last.voucher)
       /\ last.signature.msg = get_voucher_typed_data(last.voucher)
            => last.result

\* a signature over a voucher verifies for the voucher with another letter
\* case in one address
C19_Witness ==
  /\ last.op = "verify_recased"
  /\ last.recased # last.voucher
  /\ last.recased.escrow.form = "upper"
  /\ last.signature.msg = get_voucher_typed_data(last.voucher)
  /\ last.result

====
